---- MODULE Spec2Model ----
(***************************************************************************)
(* MultiGroupArray<ClassType, MaxGroupNum> and MultiGroupText<MaxGroupNum> *)
(* of src/src/containers/multi_group_array.h: one contiguous item array    *)
(* divided into MaxGroupNum groups by MaxGroupNum - 1 splits.              *)
(*                                                                         *)
(* Positions are 0-based as in the source; m_itemArray is a TLA+ sequence, *)
(* so the item at position p is m_itemArray[p + 1].                        *)
(***************************************************************************)
EXTENDS Integers, Sequences, FiniteSets, TLC

\* ------------------------------------------------------------------ bounds
\* Template parameter MaxGroupNum of the instance that is modelled.
MaxGroupNum == 4
\* Cap on m_itemArray.size(): a growing call is not made beyond it.
MaxLen == 3
\* Longest array handed to setItemArray / addItemArray.
MaxData == 2
\* Number of calls the FIND / REMOVE client makes at most.
MaxSteps == 8

\* ------------------------------------------------------- program constants
INDEX_INVALID == -1
\* moveItemToGroup returns a pointer into m_itemArray; it is modelled by the
\* position it points to, and nullptr by NULLPTR.
NULLPTR == -1

\* -------------------------------------------------------------- state
VARIABLES
    m_itemArray,  \* std::vector<ClassType>, as a sequence
    m_splits,     \* std::array<int, MaxGroupNum - 1>, a function on 0..MaxGroupNum-2
    status,       \* "ok", "assert" (an assert aborted the program), "ub" (undefined behaviour was executed)
    call,         \* the last call made: name, arguments and returned value
    pc,           \* position inside a mutation (SpecSteps), "idle" between calls
    appended,     \* per group, the items handed to addItem so far (SpecAppend)
    indexH,       \* the FIND / REMOVE client's variables (SpecScenario)
    groupH,
    steps

auxVars == <<pc, appended, indexH, groupH, steps>>
vars == <<m_itemArray, m_splits, status, call, pc, appended, indexH, groupH, steps>>

Groups == 0 .. (MaxGroupNum - 1)
SplitIndices == 0 .. (MaxGroupNum - 2)

\* Item values of the general specifications; a resize value-initialises
\* new items (ClassType()), written NUL here.
Items == {"A", "B"}
NUL == "NUL"

SeqsUpTo(S, n) == UNION {[1 .. k -> S] : k \in 0 .. n}
DataArrays == SeqsUpTo(Items, MaxData)

\* A value no group, position or returned value takes: the unused fields of call.
NA == 0 - (MaxLen + MaxGroupNum + 10)
NoGroup == NA
NoIndex == NA
NoRet == NA
\* A call: its name, its arguments, the value it returned and
\* m_itemArray.size() when it was made.
Call(op, g, i, d, r) ==
    [op |-> op, group |-> g, index |-> i, data |-> d, ret |-> r, size |-> Len(m_itemArray)]
Idle == [at |-> "idle", group |-> NoGroup, groupOld |-> NoGroup, index |-> NoIndex, offset |-> 0]

\* ------------------------------------------------------------ the container
\* Position of an item: the vector's operator[].
At(items, p) == items[p + 1]

groupPosL(splits, groupIndex) ==
    IF groupIndex = 0 THEN 0 ELSE splits[groupIndex - 1]

groupPosR(items, splits, groupIndex) ==
    IF groupIndex = MaxGroupNum - 1 THEN Len(items) ELSE splits[groupIndex]

\* The items forEachItemInGroup visits, in order.
forEachItemInGroup(items, splits, groupIndex) ==
    SubSeq(items, groupPosL(splits, groupIndex) + 1, groupPosR(items, splits, groupIndex))

\* A plausible slip: the right bound is taken as part of the group (<= for <).
RECURSIVE getItemGroupInclusive(_, _, _, _)
getItemGroupInclusive(items, splits, itemIndex, startGroupIndex) ==
    IF startGroupIndex < MaxGroupNum
    THEN IF itemIndex <= groupPosR(items, splits, startGroupIndex)
         THEN startGroupIndex
         ELSE getItemGroupInclusive(items, splits, itemIndex, startGroupIndex + 1)
    ELSE IF startGroupIndex = MaxGroupNum THEN INDEX_INVALID ELSE startGroupIndex

RECURSIVE getItemGroup(_, _, _, _)
getItemGroup(items, splits, itemIndex, startGroupIndex) ==
    IF startGroupIndex < MaxGroupNum
    THEN IF itemIndex < groupPosR(items, splits, startGroupIndex)
         THEN startGroupIndex
         ELSE getItemGroup(items, splits, itemIndex, startGroupIndex + 1)
    ELSE IF startGroupIndex = MaxGroupNum THEN INDEX_INVALID ELSE startGroupIndex

\* The assert of groupPosL and of groupPosR.
groupPosAsserts(groupIndex) == groupIndex >= 0 /\ groupIndex < MaxGroupNum

\* The two asserts of offsetSplits.
offsetSplitsAsserts(splits, offset, groupIndexStart) ==
    /\ groupIndexStart >= 0 /\ groupIndexStart < MaxGroupNum
    /\ groupIndexStart < MaxGroupNum - 1 =>
          IF groupIndexStart = 0
          THEN splits[0] + offset >= 0
          ELSE splits[groupIndexStart] + offset >= splits[groupIndexStart - 1]

\* A plausible slip: only the split of groupIndexStart is moved.
offsetSplitsOne(splits, offset, groupIndexStart, groupIndexEnd) ==
    IF groupIndexStart < MaxGroupNum - 1
    THEN [i \in DOMAIN splits |->
            IF i = groupIndexStart THEN splits[i] + offset ELSE splits[i]]
    ELSE splits

\* A plausible slip: the loop starts one split too late.
offsetSplitsLate(splits, offset, groupIndexStart, groupIndexEnd) ==
    IF groupIndexStart < MaxGroupNum - 1
    THEN [i \in DOMAIN splits |->
            IF groupIndexStart + 1 <= i /\ i < groupIndexEnd - 1
            THEN splits[i] + offset ELSE splits[i]]
    ELSE splits

offsetSplits(splits, offset, groupIndexStart, groupIndexEnd) ==
    IF groupIndexStart < MaxGroupNum - 1
    THEN [i \in DOMAIN splits |->
            IF groupIndexStart <= i /\ i < groupIndexEnd - 1
            THEN splits[i] + offset ELSE splits[i]]
    ELSE splits

\* A plausible slip: the old length is counted with both ends (R - L + 1).
arrayLengthDiffInclusive(items, splits, newGroupIndex, newArrayLength, replace) ==
    LET oldArrayLength == groupPosR(items, splits, newGroupIndex) - groupPosL(splits, newGroupIndex) + 1
    IN  IF replace THEN newArrayLength - oldArrayLength ELSE newArrayLength

\* int arrayLengthDiff of modifyData.
arrayLengthDiff(items, splits, newGroupIndex, newArrayLength, replace) ==
    LET oldArrayLength == groupPosR(items, splits, newGroupIndex) - groupPosL(splits, newGroupIndex)
    IN  IF replace THEN newArrayLength - oldArrayLength ELSE newArrayLength

\* A plausible slip: the growing shift stops one item early (> for >=).
shiftTailShort(items, separatorPosR, diff) ==
    IF diff > 0
    THEN LET resized == items \o [i \in 1 .. diff |-> NUL]
         IN  [i \in 1 .. Len(resized) |->
                IF i - 1 > separatorPosR + diff THEN resized[i - diff] ELSE resized[i]]
    ELSE IF diff < 0
    THEN LET shifted == [i \in 1 .. Len(items) |->
                           IF (i - 1) - diff >= separatorPosR /\ (i - 1) - diff < Len(items)
                           THEN items[i - diff] ELSE items[i]]
         IN  SubSeq(shifted, 1, Len(items) + diff)
    ELSE items

\* modifyData, lines 118-127: resize and shift the tail.
shiftTail(items, separatorPosR, diff) ==
    IF diff > 0
    THEN LET resized == items \o [i \in 1 .. diff |-> NUL]
         IN  [i \in 1 .. Len(resized) |->
                IF i - 1 >= separatorPosR + diff THEN resized[i - diff] ELSE resized[i]]
    ELSE IF diff < 0
    THEN LET shifted == [i \in 1 .. Len(items) |->
                           IF (i - 1) - diff >= separatorPosR /\ (i - 1) - diff < Len(items)
                           THEN items[i - diff] ELSE items[i]]
         IN  SubSeq(shifted, 1, Len(items) + diff)
    ELSE items

\* modifyData, lines 129-134: write count items of newData from position from.
writeData(items, from, newData, count) ==
    [i \in 1 .. Len(items) |->
        IF i - 1 >= from /\ i - 1 < from + count THEN newData[i - from] ELSE items[i]]

\* A plausible slip: the new items are written from the left of the region
\* whether or not replace is set.
modifyDataItemsFromLeft(items, splits, newGroupIndex, newData, replace) ==
    LET separatorPosL == groupPosL(splits, newGroupIndex)
        separatorPosR == groupPosR(items, splits, newGroupIndex)
        diff == arrayLengthDiff(items, splits, newGroupIndex, Len(newData), replace)
        moved == shiftTail(items, separatorPosR, diff)
    IN  writeData(moved, separatorPosL, newData, Len(newData))

\* modifyData up to and including line 134: the item array it leaves.
modifyDataItems(items, splits, newGroupIndex, newData, replace) ==
    LET separatorPosL == groupPosL(splits, newGroupIndex)
        separatorPosR == groupPosR(items, splits, newGroupIndex)
        diff == arrayLengthDiff(items, splits, newGroupIndex, Len(newData), replace)
        moved == shiftTail(items, separatorPosR, diff)
    IN  IF replace
        THEN writeData(moved, separatorPosL, newData, Len(newData))
        ELSE writeData(moved, separatorPosR, newData, diff)

\* The asserts of modifyData, lines 109 and 114.
modifyDataAsserts(items, splits, newGroupIndex) ==
    /\ newGroupIndex >= 0 /\ newGroupIndex < MaxGroupNum
    /\ groupPosR(items, splits, newGroupIndex) - groupPosL(splits, newGroupIndex) >= 0

\* The whole of modifyData: the asserts of lines 109 and 114 come before any
\* change, the asserts of offsetSplits after the item array has changed.
modifyData(items, splits, newGroupIndex, newData, replace) ==
    LET diff == arrayLengthDiff(items, splits, newGroupIndex, Len(newData), replace)
        written == modifyDataItems(items, splits, newGroupIndex, newData, replace)
    IN  IF ~modifyDataAsserts(items, splits, newGroupIndex)
        THEN [items |-> items, splits |-> splits, status |-> "assert"]
        ELSE IF ~offsetSplitsAsserts(splits, diff, newGroupIndex)
        THEN [items |-> written, splits |-> splits, status |-> "assert"]
        ELSE [items |-> written,
              splits |-> offsetSplits(splits, diff, newGroupIndex, MaxGroupNum),
              status |-> "ok"]

\* A plausible slip: the item after itemIndex is erased.
eraseNext(items, itemIndex) ==
    SubSeq(items, 1, itemIndex + 1) \o SubSeq(items, itemIndex + 3, Len(items))

\* std::vector::erase(begin() + itemIndex) for a position of the vector.
erase(items, itemIndex) ==
    SubSeq(items, 1, itemIndex) \o SubSeq(items, itemIndex + 2, Len(items))

\* erase(begin() + itemIndex) for a position outside the vector is undefined
\* behaviour: the builds at hand leave the vector as it is or shift it down
\* by one item.
eraseUndefined(items) ==
    {items} \cup (IF Len(items) > 0 THEN {Tail(items)} ELSE {})

getItemIndexByPredicate(items, c) ==
    IF \E p \in 0 .. (Len(items) - 1) : At(items, p) = c
    THEN CHOOSE p \in 0 .. (Len(items) - 1) :
            /\ At(items, p) = c
            /\ \A q \in 0 .. (p - 1) : At(items, q) # c
    ELSE INDEX_INVALID

\* A plausible slip: the end of the range is left out, so that offsetSplits
\* takes its default, MaxGroupNum.
moveSplitsToEnd(splits, groupIndexOld, groupIndex) ==
    IF groupIndex > groupIndexOld
    THEN offsetSplits(splits, -1, groupIndexOld, MaxGroupNum)
    ELSE offsetSplits(splits, 1, groupIndex, MaxGroupNum)

\* moveItemToGroup, lines 187 and 199: the splits between the two groups.
moveSplits(splits, groupIndexOld, groupIndex) ==
    IF groupIndex > groupIndexOld
    THEN offsetSplits(splits, -1, groupIndexOld, groupIndex + 1)
    ELSE offsetSplits(splits, 1, groupIndex, groupIndexOld + 1)

\* A plausible slip: the far edge of the target group is taken.
moveTargetFarEdge(items, splits, groupIndexOld, groupIndex) ==
    IF groupIndex > groupIndexOld
    THEN groupPosR(items, splits, groupIndex) - 1
    ELSE groupPosL(splits, groupIndex)

\* moveItemToGroup, lines 188 and 200, read after the splits have moved:
\* the position the item is put at.
moveTarget(items, splits, groupIndexOld, groupIndex) ==
    IF groupIndex > groupIndexOld
    THEN groupPosL(splits, groupIndex)
    ELSE groupPosR(items, splits, groupIndex) - 1

\* A plausible slip: the item and the item at target are swapped, the items
\* between them stay.
moveItemsSwap(items, itemIndex, target) ==
    [i \in 1 .. Len(items) |->
        IF i - 1 = target THEN At(items, itemIndex)
        ELSE IF i - 1 = itemIndex THEN At(items, target)
        ELSE items[i]]

\* moveItemToGroup, lines 190-193 and 202-205: the item is taken out, the
\* items between it and position target move one place towards it, and it
\* is put at target.
moveItems(items, itemIndex, target) ==
    [i \in 1 .. Len(items) |->
        IF i - 1 = target THEN At(items, itemIndex)
        ELSE IF itemIndex <= i - 1 /\ i - 1 < target THEN items[i + 1]
        ELSE IF target < i - 1 /\ i - 1 <= itemIndex THEN items[i - 1]
        ELSE items[i]]

\* A plausible slip: the early return for the item's own group is missing.
moveItemToGroupNoSameGroup(items, splits, itemIndex, groupIndex) ==
    LET groupIndexOld == getItemGroup(items, splits, itemIndex, 0)
        same(ret, st) == [items |-> items, splits |-> splits, ret |-> ret, status |-> st]
    IN  IF ~(groupIndex >= 0 /\ groupIndex < MaxGroupNum) THEN same(NULLPTR, "assert")
        ELSE IF itemIndex < 0 \/ itemIndex >= Len(items) THEN same(NULLPTR, "ok")
        ELSE IF groupIndexOld = INDEX_INVALID THEN same(NULLPTR, "ok")
        ELSE IF ~offsetSplitsAsserts(splits, IF groupIndex > groupIndexOld THEN -1 ELSE 1,
                                     IF groupIndex > groupIndexOld THEN groupIndexOld ELSE groupIndex)
        THEN same(NULLPTR, "assert")
        ELSE LET moved == moveSplits(splits, groupIndexOld, groupIndex)
                 target == moveTarget(items, moved, groupIndexOld, groupIndex)
             IN  [items |-> moveItems(items, itemIndex, target),
                  splits |-> moved, ret |-> target, status |-> "ok"]

moveItemToGroup(items, splits, itemIndex, groupIndex) ==
    LET groupIndexOld == getItemGroup(items, splits, itemIndex, 0)
        same(ret, st) == [items |-> items, splits |-> splits, ret |-> ret, status |-> st]
    IN  IF ~(groupIndex >= 0 /\ groupIndex < MaxGroupNum) THEN same(NULLPTR, "assert")
        ELSE IF itemIndex < 0 \/ itemIndex >= Len(items) THEN same(NULLPTR, "ok")
        ELSE IF groupIndexOld = INDEX_INVALID THEN same(NULLPTR, "ok")
        ELSE IF groupIndex = groupIndexOld THEN same(itemIndex, "ok")
        ELSE IF ~offsetSplitsAsserts(splits, IF groupIndex > groupIndexOld THEN -1 ELSE 1,
                                     IF groupIndex > groupIndexOld THEN groupIndexOld ELSE groupIndex)
        THEN same(NULLPTR, "assert")
        ELSE LET moved == moveSplits(splits, groupIndexOld, groupIndex)
                 target == moveTarget(items, moved, groupIndexOld, groupIndex)
             IN  [items |-> moveItems(items, itemIndex, target),
                  splits |-> moved, ret |-> target, status |-> "ok"]

\* A plausible slip: the splits are moved from the group after the item's on.
removeItemSplitsAfter(items, splits, itemIndex) ==
    LET group == getItemGroup(items, splits, itemIndex, 0)
    IN  IF ~offsetSplitsAsserts(splits, -1, group)
        THEN {[items |-> items, splits |-> splits, status |-> "assert"]}
        ELSE LET moved == offsetSplits(splits, -1, group + 1, MaxGroupNum)
             IN  IF itemIndex >= 0 /\ itemIndex < Len(items)
                 THEN {[items |-> erase(items, itemIndex), splits |-> moved, status |-> "ok"]}
                 ELSE {[items |-> e, splits |-> moved, status |-> "ub"] : e \in eraseUndefined(items)}

\* removeItem: the group lookup and the asserts of offsetSplits come first,
\* then the splits move, then the item is erased.
removeItem(items, splits, itemIndex) ==
    LET group == getItemGroup(items, splits, itemIndex, 0)
    IN  IF ~offsetSplitsAsserts(splits, -1, group)
        THEN {[items |-> items, splits |-> splits, status |-> "assert"]}
        ELSE LET moved == offsetSplits(splits, -1, group, MaxGroupNum)
             IN  IF itemIndex >= 0 /\ itemIndex < Len(items)
                 THEN {[items |-> erase(items, itemIndex), splits |-> moved, status |-> "ok"]}
                 ELSE {[items |-> e, splits |-> moved, status |-> "ub"] : e \in eraseUndefined(items)}

\* -------------------------------------------------------------- Init
\* MultiGroupArray() { clear(); }
Init ==
    /\ m_itemArray = <<>>
    /\ m_splits = [i \in SplitIndices |-> 0]
    /\ status = "ok"
    /\ call = [op |-> "MultiGroupArray", group |-> NoGroup, index |-> NoIndex,
               data |-> <<>>, ret |-> NoRet, size |-> 0]
    /\ pc = Idle
    /\ appended = [g \in Groups |-> <<>>]
    /\ indexH = INDEX_INVALID
    /\ groupH = INDEX_INVALID
    /\ steps = 0

\* A call can be made: no assert has aborted the program, no undefined
\* behaviour was executed and no mutation is under way.
Running == status = "ok" /\ pc.at = "idle"

ItemIndices == 0 .. (Len(m_itemArray) - 1)

\* Item indices a caller may pass, valid or not.
AnyIndices == (-2) .. (Len(m_itemArray) + 1)

\* The call leaves at most cap items in the array (the cap of the model on
\* m_itemArray.size()).
Fits(groupIndex, arr, replace, cap) ==
    Len(m_itemArray) + arrayLengthDiff(m_itemArray, m_splits, groupIndex, Len(arr), replace) <= cap

\* ---------------------------------------------------- calls, run as a whole
ModifyCall(op, groupIndex, arr, replace) ==
    /\ Running
    /\ \E r \in {modifyData(m_itemArray, m_splits, groupIndex, arr, replace)} :
          /\ m_itemArray' = r.items
          /\ m_splits' = r.splits
          /\ status' = r.status
    /\ call' = Call(op, groupIndex, NoIndex, arr, NoRet)

SetItemArray(groupIndex, arr) ==
    /\ Fits(groupIndex, arr, TRUE, MaxLen)
    /\ ModifyCall("setItemArray", groupIndex, arr, TRUE)
    /\ UNCHANGED auxVars

AddItemArray(groupIndex, arr) ==
    /\ Fits(groupIndex, arr, FALSE, MaxLen)
    /\ ModifyCall("addItemArray", groupIndex, arr, FALSE)
    /\ UNCHANGED auxVars

AddItem(groupIndex, item) ==
    /\ Fits(groupIndex, <<item>>, FALSE, MaxLen)
    /\ ModifyCall("addItem", groupIndex, <<item>>, FALSE)
    /\ UNCHANGED auxVars

RemoveGroup(groupIndex) ==
    /\ Fits(groupIndex, <<>>, TRUE, MaxLen)
    /\ ModifyCall("removeGroup", groupIndex, <<>>, TRUE)
    /\ UNCHANGED auxVars

RemoveItemCall(itemIndex) ==
    /\ Running
    /\ \E r \in removeItem(m_itemArray, m_splits, itemIndex) :
          /\ m_itemArray' = r.items
          /\ m_splits' = r.splits
          /\ status' = r.status
    /\ call' = Call("removeItem", NoGroup, itemIndex, <<>>, NoRet)

RemoveItem(itemIndex) == RemoveItemCall(itemIndex) /\ UNCHANGED auxVars

MoveItemToGroup(itemIndex, groupIndex) ==
    /\ Running
    /\ \E r \in {moveItemToGroup(m_itemArray, m_splits, itemIndex, groupIndex)} :
          /\ m_itemArray' = r.items
          /\ m_splits' = r.splits
          /\ status' = r.status
          /\ call' = Call("moveItemToGroup", groupIndex, itemIndex, <<>>, r.ret)
    /\ UNCHANGED auxVars

Clear ==
    /\ Running
    /\ m_itemArray' = <<>>
    /\ m_splits' = [i \in SplitIndices |-> 0]
    /\ status' = "ok"
    /\ call' = Call("clear", NoGroup, NoIndex, <<>>, NoRet)
    /\ UNCHANGED auxVars

\* A query: the container is left as it is.
GetItemGroup(itemIndex, startGroupIndex) ==
    /\ Running
    /\ call' = Call("getItemGroup", startGroupIndex, itemIndex, <<>>,
                    getItemGroup(m_itemArray, m_splits, itemIndex, startGroupIndex))
    /\ UNCHANGED <<m_itemArray, m_splits, status>>
    /\ UNCHANGED auxVars

\* The valid mutating calls.
Next ==
    \/ \E g \in Groups, arr \in DataArrays : SetItemArray(g, arr)
    \/ \E g \in Groups, arr \in DataArrays : AddItemArray(g, arr)
    \/ \E g \in Groups, item \in Items : AddItem(g, item)
    \/ \E g \in Groups : RemoveGroup(g)
    \/ \E i \in ItemIndices : RemoveItem(i)
    \/ \E i \in ItemIndices, g \in Groups : MoveItemToGroup(i, g)
    \/ Clear

Spec == Init /\ [][Next]_vars

\* ------------------------------------------ addItem alone, with its history
AppendItem(groupIndex, item) ==
    /\ Fits(groupIndex, <<item>>, FALSE, MaxLen)
    /\ ModifyCall("addItem", groupIndex, <<item>>, FALSE)
    /\ appended' = [appended EXCEPT ![groupIndex] = Append(@, item)]
    /\ UNCHANGED <<pc, indexH, groupH, steps>>

NextAppend == \E g \in Groups, item \in Items : AppendItem(g, item)

SpecAppend == Init /\ [][NextAppend]_vars

\* -------------------------------- calls with item indices of any value
RemoveItemAny(itemIndex) == RemoveItemCall(itemIndex) /\ UNCHANGED auxVars

MoveItemToGroupAny(itemIndex, groupIndex) == MoveItemToGroup(itemIndex, groupIndex)

NextAny ==
    \/ Next
    \/ \E i \in AnyIndices \ ItemIndices : RemoveItemAny(i)
    \/ \E i \in AnyIndices \ ItemIndices, g \in Groups : MoveItemToGroupAny(i, g)
    \/ \E i \in AnyIndices, g \in Groups : GetItemGroup(i, g)

SpecAny == Init /\ [][NextAny]_vars

\* ------------------------------------------------- group lookups, printText
\* printText, lines 292-301: the group printText colours each character
\* with, from charIndex on, groupIndex being the group of the character before.
RECURSIVE printTextGroups(_, _, _, _)
printTextGroups(items, splits, charIndex, groupIndex) ==
    IF charIndex < Len(items)
    THEN LET newGroupIndex == getItemGroup(items, splits, charIndex, groupIndex)
         IN  <<newGroupIndex>> \o printTextGroups(items, splits, charIndex + 1, newGroupIndex)
    ELSE <<>>

\* A query: the groups it passes through are kept in call.data.
PrintText ==
    /\ Running
    /\ call' = Call("printText", NoGroup, NoIndex,
                    printTextGroups(m_itemArray, m_splits, 0, 0), NoRet)
    /\ UNCHANGED <<m_itemArray, m_splits, status>>
    /\ UNCHANGED auxVars

NextLookup ==
    \/ \E g \in Groups, item \in Items : AddItem(g, item)
    \/ \E i \in ItemIndices, g \in Groups : GetItemGroup(i, g)
    \/ PrintText

SpecLookup == Init /\ [][NextLookup]_vars

\* ------------ addItem and moveItemToGroup with item indices of any value
NextMove ==
    \/ \E g \in Groups, item \in Items : AddItem(g, item)
    \/ \E i \in ItemIndices, g \in Groups : MoveItemToGroup(i, g)
    \/ \E i \in AnyIndices \ ItemIndices, g \in Groups : MoveItemToGroupAny(i, g)

SpecMove == Init /\ [][NextMove]_vars

\* --------------------------------------- mutations, one statement at a time
\* A position inside a mutation and the locals the rest of it reads.
Inside(at, groupIndex, groupIndexOld, itemIndex, offset) ==
    [at |-> at, group |-> groupIndex, groupOld |-> groupIndexOld,
     index |-> itemIndex, offset |-> offset]

\* modifyData up to line 134: the item array is resized, shifted and written.
StepModifyItems(op, groupIndex, arr, replace) ==
    /\ Running
    /\ Fits(groupIndex, arr, replace, MaxLen)
    /\ IF modifyDataAsserts(m_itemArray, m_splits, groupIndex)
       THEN /\ m_itemArray' = modifyDataItems(m_itemArray, m_splits, groupIndex, arr, replace)
            /\ pc' = Inside("modifyData:136", groupIndex, NoGroup, NoIndex,
                            arrayLengthDiff(m_itemArray, m_splits, groupIndex, Len(arr), replace))
            /\ status' = "ok"
       ELSE m_itemArray' = m_itemArray /\ pc' = Idle /\ status' = "assert"
    /\ call' = Call(op, groupIndex, NoIndex, arr, NoRet)
    /\ UNCHANGED <<m_splits, appended, indexH, groupH, steps>>

\* modifyData, line 136: offsetSplits(arrayLengthDiff, newGroupIndex).
StepModifySplits ==
    /\ status = "ok" /\ pc.at = "modifyData:136"
    /\ IF offsetSplitsAsserts(m_splits, pc.offset, pc.group)
       THEN m_splits' = offsetSplits(m_splits, pc.offset, pc.group, MaxGroupNum)
            /\ status' = "ok"
       ELSE m_splits' = m_splits /\ status' = "assert"
    /\ pc' = Idle
    /\ UNCHANGED <<m_itemArray, call, appended, indexH, groupH, steps>>

\* removeItem, line 261: offsetSplits(-1, getItemGroup(itemIndex, 0)).
StepRemoveSplits(itemIndex) ==
    /\ Running
    /\ IF offsetSplitsAsserts(m_splits, -1, getItemGroup(m_itemArray, m_splits, itemIndex, 0))
       THEN /\ m_splits' = offsetSplits(m_splits, -1,
                                        getItemGroup(m_itemArray, m_splits, itemIndex, 0), MaxGroupNum)
            /\ status' = "ok"
            /\ pc' = Inside("removeItem:262", NoGroup, NoGroup, itemIndex, -1)
       ELSE m_splits' = m_splits /\ status' = "assert" /\ pc' = Idle
    /\ call' = Call("removeItem", NoGroup, itemIndex, <<>>, NoRet)
    /\ UNCHANGED <<m_itemArray, appended, indexH, groupH, steps>>

\* removeItem, line 262: m_itemArray.erase(m_itemArray.begin() + itemIndex).
StepRemoveErase ==
    /\ status = "ok" /\ pc.at = "removeItem:262"
    /\ m_itemArray' = erase(m_itemArray, pc.index)
    /\ pc' = Idle
    /\ UNCHANGED <<m_splits, status, call, appended, indexH, groupH, steps>>

\* moveItemToGroup up to line 187 or 199: the early returns, or offsetSplits.
StepMoveSplits(itemIndex, groupIndex) ==
    /\ Running
    /\ \E groupIndexOld \in {getItemGroup(m_itemArray, m_splits, itemIndex, 0)} :
          IF groupIndexOld = INDEX_INVALID
          THEN /\ call' = Call("moveItemToGroup", groupIndex, itemIndex, <<>>, NULLPTR)
               /\ UNCHANGED <<m_splits, pc>>
          ELSE IF groupIndex = groupIndexOld
          THEN /\ call' = Call("moveItemToGroup", groupIndex, itemIndex, <<>>, itemIndex)
               /\ UNCHANGED <<m_splits, pc>>
          ELSE /\ call' = Call("moveItemToGroup", groupIndex, itemIndex, <<>>, NoRet)
               /\ m_splits' = moveSplits(m_splits, groupIndexOld, groupIndex)
               /\ pc' = Inside("moveItemToGroup:188", groupIndex, groupIndexOld, itemIndex,
                               IF groupIndex > groupIndexOld THEN -1 ELSE 1)
    /\ UNCHANGED <<m_itemArray, status, appended, indexH, groupH, steps>>

\* moveItemToGroup, lines 188-195 or 200-207: the items move.
StepMoveItems ==
    /\ status = "ok" /\ pc.at = "moveItemToGroup:188"
    /\ \E target \in {moveTarget(m_itemArray, m_splits, pc.groupOld, pc.group)} :
          /\ m_itemArray' = moveItems(m_itemArray, pc.index, target)
          /\ call' = [call EXCEPT !.ret = target]
    /\ pc' = Idle
    /\ UNCHANGED <<m_splits, status, appended, indexH, groupH, steps>>

\* clear, line 144: m_itemArray.clear().
StepClearItems ==
    /\ Running
    /\ m_itemArray' = <<>>
    /\ pc' = Inside("clear:145", NoGroup, NoGroup, NoIndex, 0)
    /\ call' = Call("clear", NoGroup, NoIndex, <<>>, NoRet)
    /\ UNCHANGED <<m_splits, status, appended, indexH, groupH, steps>>

\* clear, line 145: memset(m_splits.data(), 0, sizeof(m_splits)).
StepClearSplits ==
    /\ status = "ok" /\ pc.at = "clear:145"
    /\ m_splits' = [i \in SplitIndices |-> 0]
    /\ pc' = Idle
    /\ UNCHANGED <<m_itemArray, status, call, appended, indexH, groupH, steps>>

NextSteps ==
    \/ \E g \in Groups, arr \in DataArrays : StepModifyItems("setItemArray", g, arr, TRUE)
    \/ \E g \in Groups, arr \in DataArrays : StepModifyItems("addItemArray", g, arr, FALSE)
    \/ StepModifySplits
    \/ \E i \in ItemIndices : StepRemoveSplits(i)
    \/ StepRemoveErase
    \/ \E i \in ItemIndices, g \in Groups : StepMoveSplits(i, g)
    \/ StepMoveItems
    \/ StepClearItems
    \/ StepClearSplits

SpecSteps == Init /\ [][NextSteps]_vars

\* ------------------------------------ the FIND / REMOVE client (lines 66-83)
TextABCD == <<"A", "B", "C", "D">>
TextEFGH == <<"E", "F", "G", "H">>
TextIJKL == <<"I", "J", "K", "L">>
Texts == {TextABCD, TextEFGH, TextIJKL}
ScenarioLen == Len(TextABCD) + Len(TextEFGH) + Len(TextIJKL)

\* A plausible slip: the terminator is never counted.
TextDataNoTerm(text, withNullTerm) == text

\* const char* text with strlen(text) characters before its terminator, and
\* the newArrayLength characters addText and setText hand to modifyData.
TextData(text, withNullTerm) == IF withNullTerm THEN text \o <<NUL>> ELSE text

\* mcArray.addText(g, text)
ScAddText(groupIndex, text) ==
    /\ steps < MaxSteps
    /\ Fits(groupIndex, TextData(text, FALSE), FALSE, ScenarioLen)
    /\ ModifyCall("addText", groupIndex, TextData(text, FALSE), FALSE)
    /\ steps' = steps + 1
    /\ UNCHANGED <<pc, appended, indexH, groupH>>

\* indexH = mcArray.getItemIndexByPredicate([&](const char& c) { return c == 'H'; })
ScFind ==
    /\ steps < MaxSteps
    /\ Running
    /\ indexH' = getItemIndexByPredicate(m_itemArray, "H")
    /\ call' = Call("getItemIndexByPredicate", NoGroup, NoIndex, <<"H">>,
                    getItemIndexByPredicate(m_itemArray, "H"))
    /\ steps' = steps + 1
    /\ UNCHANGED <<m_itemArray, m_splits, status, pc, appended, groupH>>

\* groupH = mcArray.getItemGroup(indexH, 0), for an index that was found
ScGetItemGroup ==
    /\ steps < MaxSteps
    /\ Running
    /\ indexH \in ItemIndices
    /\ groupH' = getItemGroup(m_itemArray, m_splits, indexH, 0)
    /\ call' = Call("getItemGroup", 0, indexH, <<>>,
                    getItemGroup(m_itemArray, m_splits, indexH, 0))
    /\ steps' = steps + 1
    /\ UNCHANGED <<m_itemArray, m_splits, status, pc, appended, indexH>>

\* mcArray.removeItem(indexH), for an index that was found
ScRemoveItem ==
    /\ steps < MaxSteps
    /\ indexH \in ItemIndices
    /\ RemoveItemCall(indexH)
    /\ steps' = steps + 1
    /\ UNCHANGED <<pc, appended, indexH, groupH>>

\* mcArray.removeGroup(groupH)
ScRemoveGroup ==
    /\ steps < MaxSteps
    /\ groupH \in Groups
    /\ ModifyCall("removeGroup", groupH, <<>>, TRUE)
    /\ steps' = steps + 1
    /\ UNCHANGED <<pc, appended, indexH, groupH>>

NextScenario ==
    \/ \E g \in Groups, text \in Texts : ScAddText(g, text)
    \/ ScFind
    \/ ScGetItemGroup
    \/ ScRemoveItem
    \/ ScRemoveGroup

SpecScenario == Init /\ [][NextScenario]_vars

\* ------------------------- MultiGroupText: setText / addText (lines 278-286)
\* A mutation of group groupIndex by setText / addText; text holds the
\* strlen(text) characters before the terminator.
SetText(groupIndex, text, withNullTerm) ==
    /\ Fits(groupIndex, TextData(text, withNullTerm), TRUE, MaxLen)
    /\ ModifyCall("setText", groupIndex, TextData(text, withNullTerm), TRUE)
    /\ UNCHANGED auxVars

AddText(groupIndex, text, withNullTerm) ==
    /\ Fits(groupIndex, TextData(text, withNullTerm), FALSE, MaxLen)
    /\ ModifyCall("addText", groupIndex, TextData(text, withNullTerm), FALSE)
    /\ UNCHANGED auxVars

\* The C strings a client passes: "", "A" and "AB".
TextStrings == {<<>>, <<"A">>, <<"A", "B">>}

NextText ==
    \/ \E g \in Groups, text \in TextStrings, withNullTerm \in BOOLEAN : SetText(g, text, withNullTerm)
    \/ \E g \in Groups, text \in TextStrings, withNullTerm \in BOOLEAN : AddText(g, text, withNullTerm)

SpecText == Init /\ [][NextText]_vars

\* ----------------- the DATA ARRANGMENT / CHAR ARRAY client (lines 17-38)
TextDataArray == <<"d", "a", "t", "a", "_", "a", "r", "r", "a", "y", "_">>
TextOne == TextDataArray \o <<"o", "n", "e">>
TextTwo == TextDataArray \o <<"t", "w", "o">>
TextThree == TextDataArray \o <<"t", "h", "r", "e", "e">>
TextFour == TextDataArray \o <<"f", "o", "u", "r">>
\* The text of group g is ArrangementTexts[g + 1].
ArrangementTexts == <<TextOne, TextTwo, TextThree, TextFour>>
ArrangementGroups == {g \in Groups : g + 1 \in DOMAIN ArrangementTexts}

\* mcArray.addText(g, text) and mcArray.addText(g, text, true), once per
\* group, the groups in any order.
ArAddText(groupIndex, withNullTerm) ==
    /\ appended[groupIndex] = <<>>
    /\ ModifyCall("addText", groupIndex,
                  TextData(ArrangementTexts[groupIndex + 1], withNullTerm), FALSE)
    /\ appended' = [appended EXCEPT
                       ![groupIndex] = TextData(ArrangementTexts[groupIndex + 1], withNullTerm)]
    /\ UNCHANGED <<pc, indexH, groupH, steps>>

NextArrangement ==
    \E g \in ArrangementGroups, withNullTerm \in BOOLEAN : ArAddText(g, withNullTerm)

SpecArrangement == Init /\ [][NextArrangement]_vars

\* ------------- the "Add data to specific category" client (lines 41-64)
Text1 == <<"1">>
ExampleTexts == {TextABCD, TextEFGH, Text1}
ExampleLen == Len(TextABCD) + Len(TextEFGH)

\* mcArray.addText(g, text)
ExAddText(groupIndex, text) ==
    /\ Fits(groupIndex, TextData(text, FALSE), FALSE, ExampleLen)
    /\ ModifyCall("addText", groupIndex, TextData(text, FALSE), FALSE)
    /\ UNCHANGED auxVars

\* mcArray.setText(g, text)
ExSetText(groupIndex, text) ==
    /\ Fits(groupIndex, TextData(text, FALSE), TRUE, ExampleLen)
    /\ ModifyCall("setText", groupIndex, TextData(text, FALSE), TRUE)
    /\ UNCHANGED auxVars

NextExample ==
    \/ \E g \in Groups, text \in ExampleTexts : ExAddText(g, text)
    \/ \E g \in Groups, text \in ExampleTexts : ExSetText(g, text)

SpecExample == Init /\ [][NextExample]_vars

\* ------------------------------------------------------------ vocabulary
\* Length and content of a group's region, and the group whose region holds
\* position p, as the data model defines them.
GroupLen(items, splits, g) == groupPosR(items, splits, g) - groupPosL(splits, g)

Region(g) == forEachItemInGroup(m_itemArray, m_splits, g)

OwnersOf(items, splits, p) ==
    {g \in Groups : groupPosL(splits, g) <= p /\ p < groupPosR(items, splits, g)}

\* This step is a moveItemToGroup of an item of group s to another group t.
MovedFromTo(s, t) ==
    /\ call'.op = "moveItemToGroup"
    /\ call'.group = t
    /\ call'.index >= 0 /\ call'.index < Len(m_itemArray)
    /\ OwnersOf(m_itemArray, m_splits, call'.index) = {s}
    /\ s # t

\* ------------------------------------------------------------------ C1
\* C1: after any sequence of valid mutating calls the splits are
\* non-decreasing and every split lies in [0, m_itemArray.size()], so the
\* regions of the groups partition [0, size) with no gap and no overlap:
\* every position is owned by exactly one group.
C1_PartitionInvariant ==
    /\ \A i \in SplitIndices : 0 <= m_splits[i] /\ m_splits[i] <= Len(m_itemArray)
    /\ \A i, j \in SplitIndices : i <= j => m_splits[i] <= m_splits[j]
    /\ \A g \in Groups : GroupLen(m_itemArray, m_splits, g) >= 0
    /\ \A p \in ItemIndices : Cardinality(OwnersOf(m_itemArray, m_splits, p)) = 1

\* An item has been moved to another position while the array is at its cap
\* and three groups hold items.
C1_Witness ==
    /\ call.op = "moveItemToGroup"
    /\ call.ret # NULLPTR /\ call.ret # call.index
    /\ Len(m_itemArray) = MaxLen
    /\ Cardinality({g \in Groups : Region(g) # <<>>}) >= 3

\* ------------------------------------------------------------------ C2
\* C2: after setItemArray(g, data, n) the region of group g holds exactly
\* data[0..n) and every other group holds the sequence it held before.
C2_RoundTrip ==
    [][\A g \in Groups :
          (call'.op = "setItemArray" /\ call'.group = g) =>
              /\ forEachItemInGroup(m_itemArray', m_splits', g) = call'.data
              /\ \A h \in Groups \ {g} :
                    forEachItemInGroup(m_itemArray', m_splits', h) = Region(h)]_vars

\* setItemArray has made a group shorter, data is not empty and a later
\* group holds items (the tail was shifted down).
C2_Witness ==
    /\ call.op = "setItemArray"
    /\ call.data # <<>>
    /\ Len(m_itemArray) < call.size
    /\ \E h \in Groups : h > call.group /\ Region(h) # <<>>

\* ------------------------------------------------------------------ C3
\* C3: from groups that are empty, after addItem(g, x1), ..., addItem(g, xk),
\* interleaved in any way with addItem calls on the other groups, the region
\* of every group g holds exactly the items handed to addItem(g, .), in call
\* order.
C3_AppendAccumulates ==
    \A g \in Groups : Region(g) = appended[g]

\* Two different items were added to group 1 and an item to group 0, and the
\* last addItem was on another group than group 1.
C3_Witness ==
    /\ appended[1] = <<"A", "B">>
    /\ appended[0] # <<>>
    /\ call.op = "addItem" /\ call.group # 1

\* ------------------------------------------------------------------ C4
\* C4: moving the item at itemIndex from its group s to another group t
\* keeps m_itemArray.size(), the returned pointer points to an item with the
\* value that was at itemIndex, group s is one shorter and group t one longer.
C4_MoveConserves ==
    [][\A s, t \in Groups :
          MovedFromTo(s, t) =>
              /\ Len(m_itemArray') = Len(m_itemArray)
              /\ call'.ret >= 0 /\ call'.ret < Len(m_itemArray')
              /\ At(m_itemArray', call'.ret) = At(m_itemArray, call'.index)
              /\ GroupLen(m_itemArray', m_splits', s) = GroupLen(m_itemArray, m_splits, s) - 1
              /\ GroupLen(m_itemArray', m_splits', t) = GroupLen(m_itemArray, m_splits, t) + 1]_vars

\* An item has been moved to another position, into a group that held
\* items already, with the array at its cap.
C4_Witness ==
    /\ call.op = "moveItemToGroup"
    /\ call.ret # NULLPTR /\ call.ret # call.index
    /\ GroupLen(m_itemArray, m_splits, call.group) >= 2
    /\ Len(m_itemArray) = MaxLen

\* ------------------------------------------------------------------ C5
\* C5 as stated: after a move to a group to the right of the item's group
\* the item is at the last position of the target group's region,
\* groupPosR(targetGroup) - 1.
C5_RightwardLast ==
    [][\A s, t \in Groups :
          (MovedFromTo(s, t) /\ t > s) =>
              /\ call'.ret = groupPosR(m_itemArray', m_splits', t) - 1
              /\ At(m_itemArray', groupPosR(m_itemArray', m_splits', t) - 1)
                    = At(m_itemArray, call'.index)]_vars

\* C5 as amended: after a move to a group to the right of the item's group
\* the item is at the first position of the target group's region,
\* groupPosL(targetGroup), and the returned pointer points there.
C5_RightwardFirst ==
    [][\A s, t \in Groups :
          (MovedFromTo(s, t) /\ t > s) =>
              /\ call'.ret = groupPosL(m_splits', t)
              /\ At(m_itemArray', groupPosL(m_splits', t)) = At(m_itemArray, call'.index)]_vars

\* An item has moved to the right, into a group that held items already: the
\* first and the last position of the target differ.
C5_Witness ==
    /\ call.op = "moveItemToGroup"
    /\ call.ret > call.index
    /\ call.ret = groupPosL(m_splits, call.group)
    /\ GroupLen(m_itemArray, m_splits, call.group) >= 2

\* ------------------------------------------------------------------ C6
\* C6 as stated: after a move to a group to the left of the item's group the
\* item is at the first position of the target group's region,
\* groupPosL(targetGroup).
C6_LeftwardFirst ==
    [][\A s, t \in Groups :
          (MovedFromTo(s, t) /\ t < s) =>
              /\ call'.ret = groupPosL(m_splits', t)
              /\ At(m_itemArray', groupPosL(m_splits', t)) = At(m_itemArray, call'.index)]_vars

\* C6 as amended: after a move to a group to the left of the item's group the
\* item is at the last position of the target group's region,
\* groupPosR(targetGroup) - 1, and the returned pointer points there.
C6_LeftwardLast ==
    [][\A s, t \in Groups :
          (MovedFromTo(s, t) /\ t < s) =>
              /\ call'.ret = groupPosR(m_itemArray', m_splits', t) - 1
              /\ At(m_itemArray', groupPosR(m_itemArray', m_splits', t) - 1)
                    = At(m_itemArray, call'.index)]_vars

\* An item has moved to the left, into a group that held items already.
C6_Witness ==
    /\ call.op = "moveItemToGroup"
    /\ call.ret # NULLPTR /\ call.ret < call.index
    /\ call.ret = groupPosR(m_itemArray, m_splits, call.group) - 1
    /\ GroupLen(m_itemArray, m_splits, call.group) >= 2

\* ------------------------------------------------------------------ C7
\* The groups hold a, b and c, and there is nothing else in the array.
Holds(items, splits, a, b, c) ==
    /\ forEachItemInGroup(items, splits, 0) = a
    /\ forEachItemInGroup(items, splits, 1) = b
    /\ forEachItemInGroup(items, splits, 2) = c
    /\ Len(items) = Len(a) + Len(b) + Len(c)

ScenarioStart == Holds(m_itemArray, m_splits, TextABCD, TextEFGH, TextIJKL)

ScenarioRemoved == Holds(m_itemArray, m_splits, TextABCD, <<"E", "F", "G">>, TextIJKL)

\* C7 as stated: with "ABCD" / "EFGH" / "IJKL" the search for 'H' returns
\* index 6, getItemGroup(6, 0) returns group 1, removeItem(6) leaves
\* "ABCD" / "EFG" / "IJKL", the next search returns INDEX_INVALID and
\* removeGroup(1) leaves "ABCD" / "" / "IJKL".
C7_ScenarioIndex6 ==
    [][/\ (ScenarioStart /\ call'.op = "getItemIndexByPredicate") => indexH' = 6
       /\ ScenarioStart => getItemGroup(m_itemArray, m_splits, 6, 0) = 1
       /\ (ScenarioStart /\ call'.op = "removeItem" /\ call'.index = 6) =>
              Holds(m_itemArray', m_splits', TextABCD, <<"E", "F", "G">>, TextIJKL)
       /\ (ScenarioRemoved /\ call'.op = "getItemIndexByPredicate") => indexH' = INDEX_INVALID
       /\ (ScenarioRemoved /\ call'.op = "removeGroup" /\ call'.group = 1) =>
              Holds(m_itemArray', m_splits', TextABCD, <<>>, TextIJKL)]_vars

\* C7 as amended: the search for 'H' returns index 7 (as the comment of line
\* 70 says), getItemGroup(7, 0) returns group 1, removeItem(7) leaves
\* "ABCD" / "EFG" / "IJKL", the next search returns INDEX_INVALID and
\* removeGroup(1) leaves "ABCD" / "" / "IJKL", group 1 of length 0.
C7_ScenarioIndex7 ==
    [][/\ (ScenarioStart /\ call'.op = "getItemIndexByPredicate") => indexH' = 7
       /\ (ScenarioStart /\ call'.op = "getItemGroup" /\ call'.index = 7) => groupH' = 1
       /\ (ScenarioStart /\ call'.op = "removeItem" /\ call'.index = 7) =>
              Holds(m_itemArray', m_splits', TextABCD, <<"E", "F", "G">>, TextIJKL)
       /\ (ScenarioRemoved /\ call'.op = "getItemIndexByPredicate") => indexH' = INDEX_INVALID
       /\ (ScenarioRemoved /\ call'.op = "removeGroup" /\ call'.group = 1) =>
              /\ Holds(m_itemArray', m_splits', TextABCD, <<>>, TextIJKL)
              /\ GroupLen(m_itemArray', m_splits', 1) = 0]_vars

\* The client has run to its end: 'H' was found in group 1 and removed, the
\* next search did not find it, and removeGroup(groupH) has emptied group 1.
C7_Witness ==
    /\ Holds(m_itemArray, m_splits, TextABCD, <<>>, TextIJKL)
    /\ call.op = "removeGroup" /\ call.group = 1
    /\ call.size = ScenarioLen - 1
    /\ groupH = 1
    /\ indexH = INDEX_INVALID

\* ------------------------------------------------------------------ C8
\* C8: removeItem(itemIndex) with itemIndex outside [0, size) is a no-op or
\* ends in an explicit error, and leaves m_itemArray and every split as they
\* were.
C8_RemoveItemBadIndexNoEffect ==
    [][(call'.op = "removeItem" /\ (call'.index < 0 \/ call'.index >= Len(m_itemArray))) =>
          /\ m_itemArray' = m_itemArray
          /\ m_splits' = m_splits
          /\ status' \in {"ok", "assert"}]_vars

\* ------------------------------------------------------------------ C9
\* C9: getItemGroup(itemIndex, 0) returns INDEX_INVALID for every itemIndex
\* outside [0, size), negative ones included. (call.group holds the
\* startGroupIndex argument of a getItemGroup call.)
C9_GroupLookupOutOfRange ==
    (call.op = "getItemGroup" /\ call.group = 0
        /\ (call.index < 0 \/ call.index >= call.size)) =>
    call.ret = INDEX_INVALID

\* ----------------------------------------------------------------- C10
Bounded ==
    \A i \in SplitIndices : 0 <= m_splits[i] /\ m_splits[i] <= Len(m_itemArray)

\* C10 as stated: 0 <= splits[i] <= size holds between calls and at every
\* point inside modifyData (growing and shrinking), removeItem and
\* moveItemToGroup.
C10_TransientBounded ==
    pc.at \in {"idle", "modifyData:136", "removeItem:262", "moveItemToGroup:188"} => Bounded

\* C10 as amended: 0 <= splits[i] <= size holds between calls and inside a
\* growing modifyData, removeItem and moveItemToGroup; inside a shrinking
\* modifyData, between the resize and offsetSplits, every split is >= 0, the
\* splits below newGroupIndex are <= size and the splits from newGroupIndex
\* on exceed size by at most |arrayLengthDiff|.
C10_TransientBoundedUnlessShrinking ==
    /\ (\/ pc.at \in {"idle", "removeItem:262", "moveItemToGroup:188"}
        \/ (pc.at = "modifyData:136" /\ pc.offset >= 0)) => Bounded
    /\ (pc.at = "modifyData:136" /\ pc.offset < 0) =>
          \A i \in SplitIndices :
              /\ 0 <= m_splits[i]
              /\ i < pc.group => m_splits[i] <= Len(m_itemArray)
              /\ i >= pc.group => m_splits[i] <= Len(m_itemArray) - pc.offset

\* Inside a shrinking modifyData that leaves items in the array, the last
\* split exceeds size by |arrayLengthDiff|.
C10_Witness ==
    /\ pc.at = "modifyData:136" /\ pc.offset < 0
    /\ Len(m_itemArray) > 0
    /\ m_splits[MaxGroupNum - 2] = Len(m_itemArray) - pc.offset

\* ----------------------------------------------------------------- C11
\* C11: removeGroup(g) on a group whose region is empty leaves m_itemArray
\* and every split as they were; and after any removeGroup(g) a second
\* removeGroup(g) gives the state the first one left.
C11_RemoveGroupIdempotent ==
    [][\A g \in Groups :
          (call'.op = "removeGroup" /\ call'.group = g) =>
              /\ GroupLen(m_itemArray, m_splits, g) = 0 =>
                    /\ m_itemArray' = m_itemArray
                    /\ m_splits' = m_splits
                    /\ status' = "ok"
              /\ GroupLen(m_itemArray', m_splits', g) = 0
              /\ modifyData(m_itemArray', m_splits', g, <<>>, TRUE)
                    = [items |-> m_itemArray', splits |-> m_splits', status |-> "ok"]]_vars

\* removeGroup was called on an empty group that lies between two groups
\* that hold items.
C11_Witness ==
    /\ call.op = "removeGroup"
    /\ call.size = Len(m_itemArray)
    /\ \E g \in Groups : g < call.group /\ Region(g) # <<>>
    /\ \E g \in Groups : g > call.group /\ Region(g) # <<>>

\* ----------------------------------------------------------------- C12
\* The spans of groups 0 .. g, one after the other in group order.
RECURSIVE ConcatUpTo(_, _)
ConcatUpTo(spans, g) ==
    IF g < 0 THEN <<>> ELSE ConcatUpTo(spans, g - 1) \o spans[g]

\* Every group of the arrangement was given its text by addText(g, text).
ArrangementDone ==
    \A g \in ArrangementGroups : appended[g] = ArrangementTexts[g + 1]

\* C12: from the empty container, after one span was appended to each of
\* some groups, in any call order, m_itemArray is the spans one after the
\* other in group order and group g lies at [sum of the lengths of the groups
\* below g, that sum plus its own length); with the four texts of lengths
\* 14, 14, 16, 15 in groups 0..3 group 1 lies at [14, 28).
C12_StorageOrder ==
    /\ status = "ok"
    /\ m_itemArray = ConcatUpTo(appended, MaxGroupNum - 1)
    /\ \A g \in Groups :
          /\ groupPosL(m_splits, g) = Len(ConcatUpTo(appended, g - 1))
          /\ groupPosR(m_itemArray, m_splits, g) = Len(ConcatUpTo(appended, g))
    /\ ArrangementDone =>
          /\ m_itemArray = TextOne \o TextTwo \o TextThree \o TextFour
          /\ Len(TextOne) = 14 /\ Len(TextTwo) = 14 /\ Len(TextThree) = 16 /\ Len(TextFour) = 15
          /\ groupPosL(m_splits, 1) = 14
          /\ groupPosR(m_itemArray, m_splits, 1) = 28

\* The four texts are in place and group 0 was the last to get its text:
\* the call order was not the group order.
C12_Witness ==
    /\ ArrangementDone
    /\ Cardinality(ArrangementGroups) = 4
    /\ call.op = "addText" /\ call.group = 0
    /\ call.size = Len(TextTwo) + Len(TextThree) + Len(TextFour)

\* ----------------------------------------------------------------- C13
\* Every group that holds items ends with the terminator.
AllTerminated(items, splits) ==
    \A g \in Groups :
        GroupLen(items, splits, g) > 0 => At(items, groupPosR(items, splits, g) - 1) = NUL

\* C13: for a text of n characters, setText(g, text, false) makes group g
\* exactly the n characters of text and addText(g, text, false) appends
\* exactly these n characters to group g; with the flag true the stored span
\* has n + 1 items, the last one the terminator. No other group changes, so
\* when addText is only called with the flag true every group that holds
\* items ends with the terminator.
C13_TerminatorFlag ==
    [][\A g \in Groups, text \in TextStrings, withNullTerm \in BOOLEAN :
          LET n == Len(text)
              k == IF withNullTerm THEN n + 1 ELSE n
              terminator == IF withNullTerm THEN <<NUL>> ELSE <<>>
              stored == forEachItemInGroup(m_itemArray', m_splits', g)
          IN  (call'.group = g /\ call'.data = TextData(text, withNullTerm)) =>
                 /\ call'.op = "setText" =>
                       /\ status' = "ok"
                       /\ Len(stored) = k
                       /\ stored = text \o terminator
                 /\ call'.op = "addText" =>
                       /\ status' = "ok"
                       /\ Len(stored) = GroupLen(m_itemArray, m_splits, g) + k
                       /\ stored = Region(g) \o text \o terminator
                 /\ call'.op \in {"setText", "addText"} =>
                       /\ withNullTerm => (stored # <<>> /\ stored[Len(stored)] = NUL)
                       /\ \A h \in Groups \ {g} :
                             forEachItemInGroup(m_itemArray', m_splits', h) = Region(h)
                 /\ (call'.op = "addText" /\ withNullTerm
                        /\ AllTerminated(m_itemArray, m_splits)) =>
                       AllTerminated(m_itemArray', m_splits')]_vars

\* addText(g, text, true) was called on a group left of one that holds a
\* text and its terminator: two groups end with the terminator.
C13_Witness ==
    /\ call.op = "addText"
    /\ call.data # <<>> /\ call.data[Len(call.data)] = NUL
    /\ AllTerminated(m_itemArray, m_splits)
    /\ \E h \in Groups : h > call.group /\ GroupLen(m_itemArray, m_splits, h) >= 2

\* ----------------------------------------------------------------- C14
\* C14: a call of modifyData on group g with n new items, and
\* delta = n - old length (replace) or n (append), changes the size of
\* m_itemArray by delta, adds delta to every split with index >= g, leaves
\* the splits below g and the items below groupPosL(g) as they were; and
\* "ABCD" / "EFGH" followed by setText(0, "1") gives "1EFGH" with split 0 = 1.
C14_SplitAdjustment ==
    [][/\ \A g \in Groups :
             (call'.op \in {"setText", "addText"} /\ call'.group = g) =>
                 LET n == Len(call'.data)
                     oldLength == GroupLen(m_itemArray, m_splits, g)
                     delta == IF call'.op = "setText" THEN n - oldLength ELSE n
                 IN  /\ status' = "ok"
                     /\ Len(m_itemArray') = Len(m_itemArray) + delta
                     /\ \A i \in SplitIndices :
                           m_splits'[i] = IF i >= g THEN m_splits[i] + delta ELSE m_splits[i]
                     /\ \A p \in 0 .. (groupPosL(m_splits, g) - 1) :
                           At(m_itemArray', p) = At(m_itemArray, p)
       /\ (m_itemArray = TextABCD /\ Region(0) = TextABCD
              /\ call'.op = "addText" /\ call'.group = 1 /\ call'.data = TextEFGH) =>
             (m_itemArray' = TextABCD \o TextEFGH /\ m_splits'[0] = 4)
       /\ (m_itemArray = TextABCD \o TextEFGH /\ Region(0) = TextABCD /\ Region(1) = TextEFGH
              /\ call'.op = "setText" /\ call'.group = 0 /\ call'.data = Text1) =>
             (m_itemArray' = Text1 \o TextEFGH /\ m_splits'[0] = 1)]_vars

\* setText(0, "1") was called on "ABCD" / "EFGH" with group 1 holding "EFGH".
C14_Witness ==
    /\ call.op = "setText" /\ call.group = 0 /\ call.data = Text1
    /\ call.size = ExampleLen
    /\ Region(0) = Text1
    /\ Region(1) = TextEFGH
    /\ m_itemArray = Text1 \o TextEFGH

\* ----------------------------------------------------------------- C15
\* C15: removeItem(itemIndex), for itemIndex in [0, size) owned by group s,
\* makes m_itemArray one shorter by taking out the item at itemIndex (the
\* items below it stay, the items above it move down by one), makes group s
\* one shorter, leaves every other group's sequence as it was and subtracts
\* one from exactly the splits with index >= s.
C15_RemoveItem ==
    [][\A s \in Groups :
          (/\ call'.op = "removeItem"
           /\ call'.index >= 0 /\ call'.index < Len(m_itemArray)
           /\ OwnersOf(m_itemArray, m_splits, call'.index) = {s}) =>
              /\ status' = "ok"
              /\ Len(m_itemArray') = Len(m_itemArray) - 1
              /\ \A p \in 0 .. (Len(m_itemArray) - 2) :
                    At(m_itemArray', p) = At(m_itemArray, IF p < call'.index THEN p ELSE p + 1)
              /\ GroupLen(m_itemArray', m_splits', s) = GroupLen(m_itemArray, m_splits, s) - 1
              /\ \A h \in Groups \ {s} :
                    forEachItemInGroup(m_itemArray', m_splits', h) = Region(h)
              /\ \A i \in SplitIndices :
                    m_splits'[i] = IF i >= s THEN m_splits[i] - 1 ELSE m_splits[i]]_vars

\* The middle item of a full array was removed and the items left of and
\* right of it are in different groups.
C15_Witness ==
    /\ call.op = "removeItem"
    /\ call.size = MaxLen
    /\ call.index > 0 /\ call.index < Len(m_itemArray)
    /\ OwnersOf(m_itemArray, m_splits, call.index - 1) # OwnersOf(m_itemArray, m_splits, call.index)
    /\ status = "ok"

\* ----------------------------------------------------------------- C16
\* The array without the item at position p.
Without(items, p) == SubSeq(items, 1, p) \o SubSeq(items, p + 2, Len(items))

\* C16: after moveItemToGroup(itemIndex, t) has put the item at position d,
\* every item at a position outside the range between itemIndex and d is
\* where it was, every item strictly inside the range is one position
\* nearer to itemIndex, and the items other than the moved one are in the
\* order they were in.
C16_MinimalDisplacement ==
    [][(\E s, t \in Groups : MovedFromTo(s, t)) =>
              LET i == call'.index
                  d == call'.ret
                  lo == IF i < d THEN i ELSE d
                  hi == IF i < d THEN d ELSE i
              IN  /\ d >= 0 /\ d < Len(m_itemArray)
                  /\ Len(m_itemArray') = Len(m_itemArray)
                  /\ \A p \in 0 .. (Len(m_itemArray) - 1) :
                        (p < lo \/ p > hi) => At(m_itemArray', p) = At(m_itemArray, p)
                  /\ \A p \in (lo + 1) .. (hi - 1) :
                        At(m_itemArray', IF i < d THEN p - 1 ELSE p + 1) = At(m_itemArray, p)
                  /\ Without(m_itemArray', d) = Without(m_itemArray, i)]_vars

\* An item has moved by two positions, over an item that differs from its
\* neighbour: there is an item strictly inside the range.
C16_Witness ==
    /\ call.op = "moveItemToGroup"
    /\ call.ret # NULLPTR
    /\ (call.ret >= call.index + 2 \/ call.index >= call.ret + 2)
    /\ m_itemArray[1] # m_itemArray[2]
    /\ status = "ok"

\* ----------------------------------------------------------------- C17
\* C17: moveItemToGroup(itemIndex, t) leaves m_itemArray and every split as
\* they were when t is the group of the item, and then returns a pointer to
\* the item at itemIndex, and when itemIndex is outside [0, size), and then
\* returns nullptr.
C17_MoveNoOp ==
    [][call'.op = "moveItemToGroup" =>
          /\ (call'.index < 0 \/ call'.index >= Len(m_itemArray)) =>
                /\ m_itemArray' = m_itemArray
                /\ m_splits' = m_splits
                /\ status' = "ok"
                /\ call'.ret = NULLPTR
          /\ (/\ call'.index >= 0 /\ call'.index < Len(m_itemArray)
              /\ OwnersOf(m_itemArray, m_splits, call'.index) = {call'.group}) =>
                /\ m_itemArray' = m_itemArray
                /\ m_splits' = m_splits
                /\ status' = "ok"
                /\ call'.ret = call'.index]_vars

\* moveItemToGroup was called with a negative itemIndex on a full array and
\* returned nullptr.
C17_Witness ==
    /\ call.op = "moveItemToGroup"
    /\ call.index < 0
    /\ call.ret = NULLPTR
    /\ call.size = MaxLen /\ Len(m_itemArray) = MaxLen
    /\ status = "ok"

\* ----------------------------------------------------------------- C18
\* C18: for every itemIndex in [0, size) and every start group h not above
\* the group g that owns itemIndex, getItemGroup(itemIndex, h) returns g, the
\* one group with groupPosL(g) <= itemIndex < groupPosR(g), whatever empty
\* groups lie between h and g; and the scan of printText, which passes the
\* group of the character before as the start group, finds for every
\* character the group getItemGroup(charIndex, 0) returns.
C18_LookupWithHint ==
    /\ \A p \in ItemIndices, g \in Groups :
          OwnersOf(m_itemArray, m_splits, p) = {g} =>
              \A h \in 0 .. g : getItemGroup(m_itemArray, m_splits, p, h) = g
    /\ \A p \in ItemIndices : Cardinality(OwnersOf(m_itemArray, m_splits, p)) = 1
    /\ (call.op = "getItemGroup" /\ call.index \in ItemIndices) =>
          \A g \in Groups :
              (OwnersOf(m_itemArray, m_splits, call.index) = {g} /\ call.group <= g) =>
                  call.ret = g
    /\ call.op = "printText" =>
          /\ Len(call.data) = Len(m_itemArray)
          /\ \A p \in ItemIndices :
                /\ call.data[p + 1] = getItemGroup(m_itemArray, m_splits, p, 0)
                /\ OwnersOf(m_itemArray, m_splits, p) = {call.data[p + 1]}

\* getItemGroup was called with a start group above 0, for an item of a later
\* group, with an empty group between the two.
C18_Witness ==
    /\ call.op = "getItemGroup"
    /\ call.index \in ItemIndices
    /\ call.group > 0
    /\ call.ret > call.group + 1
    /\ GroupLen(m_itemArray, m_splits, call.group + 1) = 0
    /\ GroupLen(m_itemArray, m_splits, 0) > 0
    /\ OwnersOf(m_itemArray, m_splits, call.index) = {call.ret}

\* ----------------------------------------------------------------- C19
\* C19: when every group index is in [0, MaxGroupNum), every item index
\* passed to removeItem and moveItemToGroup is in [0, size) and every array
\* length is >= 0, no assert fails: not those of offsetSplits (the moved
\* split stays >= the split before it, or >= 0 for split 0), not the one of
\* modifyData (oldArrayLength >= 0) and not those of groupPosL / groupPosR
\* (the group a lookup from group 0 finds for an item is a group).
C19_AssertsUnreachable ==
    /\ status = "ok"
    /\ \A g \in Groups :
          /\ groupPosAsserts(g)
          /\ modifyDataAsserts(m_itemArray, m_splits, g)
          /\ offsetSplitsAsserts(m_splits, 0 - GroupLen(m_itemArray, m_splits, g), g)
    /\ \A p \in ItemIndices :
          /\ groupPosAsserts(getItemGroup(m_itemArray, m_splits, p, 0))
          /\ offsetSplitsAsserts(m_splits, -1, getItemGroup(m_itemArray, m_splits, p, 0))

\* removeGroup has emptied a group that lies between two groups that hold
\* items: the assert of offsetSplits was passed with equality.
C19_Witness ==
    /\ call.op = "removeGroup"
    /\ call.size > Len(m_itemArray)
    /\ call.group > 0 /\ call.group < MaxGroupNum - 1
    /\ m_splits[call.group] = m_splits[call.group - 1]
    /\ m_splits[call.group] > 0 /\ m_splits[call.group] < Len(m_itemArray)
    /\ status = "ok"

====
